---- MODULE Spec2Model ----
(***************************************************************************)
(* BookExplorer: the reactive search session of SearchComponent            *)
(* (debounce -> distinctUntilChanged -> switchMap -> result tap), its      *)
(* loadMore pagination, the infinite-scroll IntersectionObserver, the      *)
(* BookService request builder, the SearchStateService slot and the        *)
(* detail view of BookDetailComponent.                                     *)
(*                                                                         *)
(* Strings are sequences of one-character strings (<<>> is '').  An        *)
(* optional value is <<>> (undefined / null) or <<v>>.                     *)
(***************************************************************************)
EXTENDS Integers, Sequences, FiniteSets

VARIABLES
    phase,            \* lifecycle: "constructed", "init", "active", "destroyed"
    searchQuery,      \* searchQuery$.value
    filterForm,       \* filterForm.value: [author, year, subject]
    searchType,       \* searchTypeControl.value
    timer,            \* debounceTime: ms left on the pending timer, NoTimer if none
    sinceChange,      \* ms elapsed since the last combineLatest emission (capped)
    burst,            \* criteria changes in the current or last quiet period (capped)
    lastEmitted,      \* distinctUntilChanged: <<>> or <<last value passed on>>
    books, isLoading, isLoadingMore, currentPage, totalResults, hasMoreResults,
    firstFetch,       \* switchMap inner subscription: <<>> or <<request in flight>>
    moreFetches,      \* loadMore subscriptions in flight, in order of issue
    resetupTimers,    \* pending setTimeout(..., 100) of the result tap
    setupTimers,      \* pending setTimeout(..., 500) of setupIntersectionObserver
    observer,         \* this.observer: "none", "connected", "disconnected"
    leaked,           \* connected observers this.observer no longer refers to
    scrollTrigger,    \* whether the view holds the sentinel (the ViewChild is set)
    sentinelVisible,  \* whether the sentinel intersects the observed zone
    searchState,      \* SearchStateService.searchState$.value: <<>> or <<snapshot>>
    request,          \* service caller: <<>> or <<arguments of the call being made>>
    response,         \* service caller: what the call returned or its observable notified
    detail,           \* BookDetailComponent: [workId, isLoading, hasError, fetches]
    storage,          \* localStorage: [favorites, theme], each <<>> or <<stored text>>
    favorites,        \* FavoritesService: [constructed, list, pending (effect to run)]
    theme,            \* ThemeService: [constructed, isDarkMode, bodyDark, pending]
                      \* and prefersDark, the (prefers-color-scheme: dark) media query
    thrown,           \* <<>> or <<error the last call threw to its caller>>
    lastOp            \* the handler that ran last and how many searchBooks calls it made

vars == <<phase, searchQuery, filterForm, searchType, timer, sinceChange, burst,
          lastEmitted, books, isLoading, isLoadingMore, currentPage,
          totalResults, hasMoreResults, firstFetch, moreFetches,
          resetupTimers, setupTimers, observer, leaked, scrollTrigger,
          sentinelVisible,
          searchState, request, response, detail, storage, favorites, theme,
          thrown, lastOp>>

(***************************************************************************)
(* Bounds of the model                                                     *)
(***************************************************************************)
MaxPage == 2            \* loadMore is not invoked beyond this page
MaxResetup == 1         \* pending 100 ms timers of the result tap
MaxSetup == 2           \* pending 500 ms timers of setupIntersectionObserver
MaxLeaked == 1          \* connected observers that are no longer referenced
TicksPerQuiet == 2      \* clock granularity: ticks per quiet period
CatalogueA == 41        \* works matching query "a" without filters
CatalogueAx == 1        \* works matching query "a" with author "x"
MaxServicePage == 3     \* pages asked of BookService directly
MaxStateCalls == 3      \* calls made to SearchStateService

(***************************************************************************)
(* Program constants                                                       *)
(***************************************************************************)
Limit == 20
DebounceMs == 300

NoTimer == 0 - 1
None == <<>>
Some(x) == <<x>>
Min(a, b) == IF a < b THEN a ELSE b
Max(a, b) == IF a > b THEN a ELSE b

(***************************************************************************)
(* String helpers: String.prototype.trim, Number.prototype.toString and    *)
(* the server's reading of a decimal parameter.                            *)
(***************************************************************************)
IsSpace(ch) == ch \in {" ", "\t"}

RECURSIVE TrimStart(_)
TrimStart(s) ==
    IF s = <<>> THEN <<>>
    ELSE IF IsSpace(Head(s)) THEN TrimStart(Tail(s)) ELSE s

RECURSIVE TrimEnd(_)
TrimEnd(s) ==
    IF s = <<>> THEN <<>>
    ELSE IF IsSpace(s[Len(s)]) THEN TrimEnd(SubSeq(s, 1, Len(s) - 1)) ELSE s

Trim(s) == TrimEnd(TrimStart(s))

Digits == <<"0", "1", "2", "3", "4", "5", "6", "7", "8", "9">>

RECURSIVE NatToString(_)
NatToString(n) ==
    IF n < 10 THEN <<Digits[n + 1]>>
    ELSE NatToString(n \div 10) \o <<Digits[(n % 10) + 1]>>

NumToString(n) == IF n < 0 THEN <<"-">> \o NatToString(0 - n) ELSE NatToString(n)

DigitValue(ch) == CHOOSE d \in 0..9 : Digits[d + 1] = ch

RECURSIVE ParseNat(_)
ParseNat(s) ==
    IF s = <<>> THEN 0
    ELSE 10 * ParseNat(SubSeq(s, 1, Len(s) - 1)) + DigitValue(s[Len(s)])

(***************************************************************************)
(* BookService.searchBooks: the short cut for a blank query and the        *)
(* request parameters otherwise.                                           *)
(***************************************************************************)
EmptyResult == [books |-> <<>>, totalResults |-> 0]

\* The test without trim(): only '' is caught.
IsEmptyQuery(query) == query = <<>>

IsBlankQuery(query) == query = <<>> \/ Len(Trim(query)) = 0

\* The parameters without trim() on the filters and with the year as given.
BuildParamsAsGiven(query, filters, page) ==
    LET offset == (page - 1) * Limit
    IN  [q       |-> Trim(query),
         limit   |-> NumToString(Limit),
         offset  |-> NumToString(offset),
         author  |-> IF filters.author # None /\ filters.author[1] # <<>>
                     THEN filters.author ELSE None,
         year    |-> IF filters.year # None
                     THEN Some(NumToString(filters.year[1])) ELSE None,
         subject |-> IF filters.subject # None /\ filters.subject[1] # <<>>
                     THEN filters.subject ELSE None]

\* offset = page * limit: the first page skips the first 20 works.
BuildParamsFromPage(query, filters, page) ==
    LET offset == page * Limit
    IN  [q       |-> Trim(query),
         limit   |-> NumToString(Limit),
         offset  |-> NumToString(offset),
         author  |-> IF filters.author # None /\ filters.author[1] # <<>>
                        /\ Len(Trim(filters.author[1])) > 0
                     THEN Some(Trim(filters.author[1])) ELSE None,
         year    |-> IF filters.year # None /\ filters.year[1] # 0
                     THEN Some(NumToString(filters.year[1])) ELSE None,
         subject |-> IF filters.subject # None /\ filters.subject[1] # <<>>
                        /\ Len(Trim(filters.subject[1])) > 0
                     THEN Some(Trim(filters.subject[1])) ELSE None]

BuildParams(query, filters, page) ==
    LET offset == (page - 1) * Limit
    IN  [q       |-> Trim(query),
         limit   |-> NumToString(Limit),
         offset  |-> NumToString(offset),
         author  |-> IF filters.author # None /\ filters.author[1] # <<>>
                        /\ Len(Trim(filters.author[1])) > 0
                     THEN Some(Trim(filters.author[1])) ELSE None,
         year    |-> IF filters.year # None /\ filters.year[1] # 0
                     THEN Some(NumToString(filters.year[1])) ELSE None,
         subject |-> IF filters.subject # None /\ filters.subject[1] # <<>>
                        /\ Len(Trim(filters.subject[1])) > 0
                     THEN Some(Trim(filters.subject[1])) ELSE None]

\* [immediate |-> TRUE, result]: of(...) without a network call;
\* [immediate |-> FALSE, params]: an http.get with these parameters.
SearchBooks(query, filters, page) ==
    IF IsBlankQuery(query)
    THEN [immediate |-> TRUE, result |-> EmptyResult]
    ELSE [immediate |-> FALSE, params |-> BuildParams(query, filters, page)]

(***************************************************************************)
(* The Open Library search endpoint, as the client sees it: a catalogue    *)
(* per criteria, sliced by offset and limit.                               *)
(***************************************************************************)
NumFound(params) ==
    IF params.year # None \/ params.subject # None THEN 0
    ELSE IF params.q = <<"a">>
         THEN (IF params.author = None THEN CatalogueA ELSE CatalogueAx)
    ELSE 0

Doc(params, n) ==
    [key |-> <<params.q, params.author, params.year, params.subject, n>>]

Docs(params) ==
    LET from == ParseNat(params.offset)
        upto == Min(from + ParseNat(params.limit), NumFound(params))
    IN  [i \in 1..Max(upto - from, 0) |-> Doc(params, from + i)]

\* map(response => ...) for a well-formed response and for a response
\* without docs.
OkResult(params) == [books |-> Docs(params), totalResults |-> NumFound(params)]
NoDocsResult(params) == [books |-> <<>>, totalResults |-> NumFound(params)]

\* What the http call can end in: a response with docs, a response without
\* docs, a transport or parse error.
Outcomes == {"docs", "noDocs", "error"}

\* A notification of an observable to its subscriber.
Notify(kind, value) == [kind |-> kind, value |-> value]

\* searchBooks without its catchError: the error reaches the subscriber.
RespondRethrows(params, outcome) ==
    IF outcome = "error" THEN Notify("error", "HttpErrorResponse")
    ELSE IF outcome = "noDocs" THEN Notify("next", NoDocsResult(params))
    ELSE Notify("next", OkResult(params))

\* http.get(...).pipe(map(...), catchError(() => of({books: [], totalResults: 0})))
Respond(params, outcome) ==
    IF outcome = "error" THEN Notify("next", EmptyResult)
    ELSE IF outcome = "noDocs" THEN Notify("next", NoDocsResult(params))
    ELSE Notify("next", OkResult(params))

(***************************************************************************)
(* Inputs                                                                  *)
(***************************************************************************)
Queries == {<<>>, <<"a">>}
Authors == {<<>>, <<"x">>}
SearchTypes == {"title", "author"}
EmptyForm == [author |-> <<>>, year |-> None, subject |-> <<>>]
Forms == {[EmptyForm EXCEPT !.author = a] : a \in Authors}

(***************************************************************************)
(* SearchComponent: the value combineLatest emits, the comparator of       *)
(* distinctUntilChanged and the conversion of the form value to filters.   *)
(***************************************************************************)
Combined == [query |-> searchQuery, author |-> filterForm.author,
             year |-> filterForm.year, subject |-> filterForm.subject,
             searchType |-> searchType]

\* distinctUntilChanged() without a comparator: two emitted arrays are never
\* the same object.
ComparatorByReference(prev, curr) == FALSE

Comparator(prev, curr) ==
    /\ prev.query = curr.query
    /\ prev.author = curr.author
    /\ prev.year = curr.year
    /\ prev.subject = curr.subject
    /\ prev.searchType = curr.searchType

\* x || undefined
OrUndefinedStr(x) == IF x = <<>> THEN None ELSE Some(x)
OrUndefinedNum(x) == IF x = None \/ x[1] = 0 THEN None ELSE x

ToSearchFilters(f) ==
    [author |-> OrUndefinedStr(f.author),
     year |-> OrUndefinedNum(f.year),
     subject |-> OrUndefinedStr(f.subject)]

\* The component fields the pipeline and loadMore work on, as one record;
\* calls counts the searchBooks calls of the running handler.
Comp ==
    [books |-> books, isLoading |-> isLoading, isLoadingMore |-> isLoadingMore,
     currentPage |-> currentPage, totalResults |-> totalResults,
     hasMoreResults |-> hasMoreResults, firstFetch |-> firstFetch,
     moreFetches |-> moreFetches, resetupTimers |-> resetupTimers,
     calls |-> 0, error |-> FALSE, cancelled |-> FALSE]

\* A searchBooks call in flight. inSession records that neither the reset tap
\* nor clearFilters has run since the call was issued.
Call(query, filters, page) ==
    [query |-> query, filters |-> filters, page |-> page, inSession |-> TRUE]
LeaveSession(fetches) ==
    [i \in 1..Len(fetches) |-> [fetches[i] EXCEPT !.inSession = FALSE]]
ParamsOf(call) == BuildParams(call.query, call.filters, call.page)

ResetTapKeepsPage(s) ==
    [s EXCEPT !.isLoading = TRUE, !.books = <<>>, !.hasMoreResults = TRUE]

ResetTapKeepsBooks(s) ==
    [s EXCEPT !.isLoading = TRUE, !.currentPage = 1, !.hasMoreResults = TRUE]

\* tap(() => { isLoading = true; currentPage = 1; books = []; hasMoreResults = true })
ResetTap(s) ==
    [s EXCEPT !.isLoading = TRUE, !.currentPage = 1, !.books = <<>>,
              !.hasMoreResults = TRUE]

\* The result tap without isLoading = false.
ResultTapKeepsLoading(s, result) ==
    [s EXCEPT !.books = result.books,
              !.totalResults = result.totalResults,
              !.hasMoreResults = Len(result.books) < result.totalResults,
              !.resetupTimers = @ + 1]

\* tap(result => { ...; setTimeout(() => setupIntersectionObserver(), 100) })
ResultTap(s, result) ==
    [s EXCEPT !.books = result.books,
              !.totalResults = result.totalResults,
              !.hasMoreResults = Len(result.books) < result.totalResults,
              !.isLoading = FALSE,
              !.resetupTimers = @ + 1]

\* exhaustMap in the place of switchMap: a value that arrives while a
\* first-page fetch is in flight is dropped and the fetch goes on.
ExhaustMap(s, value) ==
    LET filters == ToSearchFilters([author |-> value.author,
                                    year |-> value.year,
                                    subject |-> value.subject])
        call == Call(value.query, filters, 1)
        out == SearchBooks(call.query, call.filters, call.page)
        s1 == [s EXCEPT !.calls = @ + 1]
    IN  IF s.firstFetch # None THEN s
        ELSE IF out.immediate
        THEN ResultTap([s1 EXCEPT !.firstFetch = None], out.result)
        ELSE [s1 EXCEPT !.firstFetch = Some(call)]

\* switchMap: drops the previous inner subscription and calls searchBooks for
\* page 1; a blank query's of(...) is delivered to the result tap at once.
SwitchMap(s, value) ==
    LET filters == ToSearchFilters([author |-> value.author,
                                    year |-> value.year,
                                    subject |-> value.subject])
        call == Call(value.query, filters, 1)
        out == SearchBooks(call.query, call.filters, call.page)
        s1 == [s EXCEPT !.calls = @ + 1, !.cancelled = (s.firstFetch # None)]
    IN  IF out.immediate
        THEN ResultTap([s1 EXCEPT !.firstFetch = None], out.result)
        ELSE [s1 EXCEPT !.firstFetch = Some(call)]

\* What passes debounceTime goes through distinctUntilChanged, the reset tap
\* and switchMap.
PassesAlways(value) == TRUE

Passes(value) == lastEmitted = None \/ ~Comparator(lastEmitted[1], value)

\* The subscribe callback of loadMore.
MergeMoreReplaces(s, result) ==
    [s EXCEPT !.books = result.books,
              !.hasMoreResults = Len(result.books) < result.totalResults,
              !.isLoadingMore = FALSE]

MergeMoreTurnsPage(s, result) ==
    LET merged == s.books \o result.books
    IN  [s EXCEPT !.books = merged,
                  !.hasMoreResults = Len(merged) < result.totalResults,
                  !.isLoadingMore = FALSE,
                  !.currentPage = @ + 1]

MergeMore(s, result) ==
    LET merged == s.books \o result.books
    IN  [s EXCEPT !.books = merged,
                  !.hasMoreResults = Len(merged) < result.totalResults,
                  !.isLoadingMore = FALSE]

LoadMoreIgnoresLoading(s) == ~s.hasMoreResults

LoadMoreReturnsEarly(s) == ~s.hasMoreResults \/ s.isLoadingMore

MarkPageOnly(s) == [s EXCEPT !.currentPage = @ + 1]

\* this.isLoadingMore = true; this.currentPage++
MarkLoadingMore(s) ==
    [s EXCEPT !.isLoadingMore = TRUE, !.currentPage = @ + 1]

LoadMoreOn(s) ==
    IF LoadMoreReturnsEarly(s) THEN s
    ELSE LET page == s.currentPage + 1
             call == Call(searchQuery, ToSearchFilters(filterForm), page)
             out == SearchBooks(call.query, call.filters, call.page)
             s1 == [MarkLoadingMore(s) EXCEPT !.calls = @ + 1]
         IN  IF out.immediate
             THEN MergeMore(s1, out.result)
             ELSE [s1 EXCEPT !.moreFetches = Append(@, call)]

\* The IntersectionObserver callback.
CallbackGuard(s, isIntersecting) ==
    isIntersecting /\ s.hasMoreResults /\ ~s.isLoadingMore /\ ~s.isLoading

CallbackOn(s, isIntersecting) ==
    IF CallbackGuard(s, isIntersecting) THEN LoadMoreOn(s) ELSE s

\* One visibility change is delivered to every connected observer in turn.
RECURSIVE Deliver(_, _, _)
Deliver(s, n, isIntersecting) ==
    IF n = 0 THEN s ELSE Deliver(CallbackOn(s, isIntersecting), n - 1, isIntersecting)

Connected == leaked + (IF observer = "connected" THEN 1 ELSE 0)

\* error: the handler was the settlement of an http call that failed, or a
\* localStorage access of the handler failed.
\* cancelled: the handler unsubscribed from a first-page fetch in flight.
\* sinceClear: clearFilters ran and none of the handlers the user invokes
\* ran after it; timers and settlements leave it as it is.
UserOps == {"constructor", "change", "loadMore", "onBookClick", "ngOnDestroy"}

Op(name, calls) ==
    [op |-> name, calls |-> calls, error |-> FALSE, cancelled |-> FALSE,
     sinceClear |-> IF name = "clearFilters" THEN TRUE
                    ELSE IF name \in UserOps THEN FALSE
                    ELSE lastOp.sinceClear]

Apply(s, name) ==
    /\ books' = s.books
    /\ isLoading' = s.isLoading
    /\ isLoadingMore' = s.isLoadingMore
    /\ currentPage' = s.currentPage
    /\ totalResults' = s.totalResults
    /\ hasMoreResults' = s.hasMoreResults
    /\ firstFetch' = s.firstFetch
    /\ moreFetches' = s.moreFetches
    /\ resetupTimers' = s.resetupTimers
    /\ lastOp' = [Op(name, s.calls) EXCEPT !.error = s.error,
                                           !.cancelled = s.cancelled]

Within(s) == s.currentPage <= MaxPage /\ s.resetupTimers <= MaxResetup

sessionVars == <<books, isLoading, isLoadingMore, currentPage, totalResults,
                 hasMoreResults, firstFetch, moreFetches, resetupTimers>>
queryVars == <<searchQuery, filterForm, searchType>>
debounceVars == <<timer, sinceChange, burst>>
observerVars == <<setupTimers, observer, leaked, scrollTrigger, sentinelVisible>>
localVars == <<storage, favorites, theme, thrown>>
callerVars == <<request, response, detail, localVars>>

\* A combineLatest emission reaches debounceTime: the timer restarts.
DebounceTimeHalved == DebounceMs \div 2
DebounceTime == DebounceMs
Emit(changed) ==
    /\ timer' = DebounceTime
    /\ sinceChange' = 0
    /\ burst' = IF ~changed
                THEN IF timer = NoTimer THEN 0 ELSE burst
                ELSE IF timer = NoTimer THEN 1 ELSE Min(burst + 1, 2)

(***************************************************************************)
(* Initial state: the component as constructed.                            *)
(***************************************************************************)
Constructed ==
    /\ phase = "constructed"
    /\ searchQuery = <<>>
    /\ filterForm = EmptyForm
    /\ searchType = "title"
    /\ timer = NoTimer
    /\ sinceChange = DebounceMs
    /\ burst = 0
    /\ lastEmitted = None
    /\ books = <<>>
    /\ isLoading = FALSE
    /\ isLoadingMore = FALSE
    /\ currentPage = 1
    /\ totalResults = 0
    /\ hasMoreResults = TRUE
    /\ firstFetch = None
    /\ moreFetches = <<>>
    /\ resetupTimers = 0
    /\ setupTimers = 0
    /\ observer = "none"
    /\ leaked = 0
    /\ scrollTrigger = FALSE
    /\ sentinelVisible = FALSE
    /\ lastOp = [op |-> "constructor", calls |-> 0, error |-> FALSE,
                 cancelled |-> FALSE, sinceClear |-> FALSE]

\* BookDetailComponent as constructed; fetches counts its getBookDetails calls.
DetailConstructed ==
    detail = [workId |-> <<>>, isLoading |-> TRUE, hasError |-> FALSE,
              fetches |-> 0]

\* FavoritesService and ThemeService before they are constructed, over an
\* empty localStorage.
NoLocal ==
    /\ storage = [favorites |-> None, theme |-> None]
    /\ favorites = [constructed |-> FALSE, list |-> <<>>, pending |-> FALSE]
    /\ theme = [constructed |-> FALSE, isDarkMode |-> FALSE, bodyDark |-> FALSE,
                pending |-> FALSE, prefersDark |-> FALSE]
    /\ thrown = None

NoCaller == request = None /\ response = None /\ DetailConstructed /\ NoLocal

Init == Constructed /\ searchState = None /\ NoCaller

(***************************************************************************)
(* Lifecycle                                                               *)
(***************************************************************************)
\* ngOnInit without the restore of the saved state.
NgOnInitIgnoresSnapshot ==
    /\ phase = "constructed"
    /\ phase' = "init"
    /\ Emit(FALSE)
    /\ lastOp' = Op("ngOnInit", 0)
    /\ UNCHANGED <<queryVars, lastEmitted, sessionVars, observerVars, searchState,
                   callerVars>>

NgOnInit ==
    /\ phase = "constructed"
    /\ phase' = "init"
    /\ IF searchState # None
       THEN /\ searchQuery' = searchState[1].query
            /\ filterForm' = searchState[1].filters
            /\ Emit(<<searchState[1].query, searchState[1].filters>> # <<searchQuery, filterForm>>)
       ELSE /\ UNCHANGED <<searchQuery, filterForm>>
            /\ Emit(FALSE)
    /\ lastOp' = Op("ngOnInit", 0)
    /\ UNCHANGED <<searchType, lastEmitted, sessionVars, observerVars, searchState, callerVars>>

\* setupIntersectionObserver: disconnect the current observer, arm the timer.
SetupIntersectionObserver ==
    /\ setupTimers < MaxSetup
    /\ observer' = IF observer = "none" THEN "none" ELSE "disconnected"
    /\ setupTimers' = setupTimers + 1

\* The view is rendered, with or without the sentinel element.
NgAfterViewInit(present) ==
    /\ phase = "init"
    /\ phase' = "active"
    /\ scrollTrigger' = present
    /\ SetupIntersectionObserver
    /\ lastOp' = Op("ngAfterViewInit", 0)
    /\ UNCHANGED <<queryVars, debounceVars, lastEmitted, sessionVars, leaked,
                   sentinelVisible, searchState, callerVars>>

\* ngOnDestroy: the observer in this.observer is disconnected and destroy$
\* ends the pipeline and the loadMore subscriptions; the setTimeout timers
\* are not cleared. The view is removed, so the sentinel is no longer visible
\* to the observers that are still connected.
NgOnDestroy ==
    /\ phase = "active"
    /\ phase' = "destroyed"
    /\ observer' = IF observer = "none" THEN "none" ELSE "disconnected"
    /\ timer' = NoTimer
    /\ firstFetch' = None
    /\ moreFetches' = <<>>
    /\ sentinelVisible' = FALSE
    /\ lastOp' = Op("ngOnDestroy", 0)
    /\ UNCHANGED <<queryVars, sinceChange, burst, lastEmitted, books, isLoading,
                   isLoadingMore, currentPage, totalResults, hasMoreResults,
                   resetupTimers, setupTimers, leaked, scrollTrigger,
                   searchState, callerVars>>

(***************************************************************************)
(* Query state changes                                                     *)
(***************************************************************************)
OnSearchInput(value) ==
    /\ phase = "active"
    /\ searchQuery' = value
    /\ Emit(value # searchQuery)
    /\ lastOp' = Op("change", 0)
    /\ UNCHANGED <<phase, filterForm, searchType, lastEmitted, sessionVars,
                   observerVars, searchState, callerVars>>

FilterChange(value) ==
    /\ phase = "active"
    /\ filterForm' = value
    /\ Emit(value # filterForm)
    /\ lastOp' = Op("change", 0)
    /\ UNCHANGED <<phase, searchQuery, searchType, lastEmitted, sessionVars,
                   observerVars, searchState, callerVars>>

SearchTypeChange(value) ==
    /\ phase = "active"
    /\ searchType' = value
    /\ Emit(value # searchType)
    /\ lastOp' = Op("change", 0)
    /\ UNCHANGED <<phase, searchQuery, filterForm, lastEmitted, sessionVars,
                   observerVars, searchState, callerVars>>

ClearFilters ==
    /\ phase = "active"
    /\ searchQuery' = <<>>
    /\ filterForm' = EmptyForm
    /\ Emit(<<searchQuery, filterForm>> # <<<<>>, EmptyForm>>)
    /\ books' = <<>>
    /\ totalResults' = 0
    /\ currentPage' = 1
    /\ hasMoreResults' = TRUE
    /\ searchState' = None
    /\ moreFetches' = LeaveSession(moreFetches)
    /\ lastOp' = Op("clearFilters", 0)
    /\ UNCHANGED <<phase, searchType, lastEmitted, isLoading, isLoadingMore,
                   firstFetch, resetupTimers, observerVars, callerVars>>

OnBookClick ==
    /\ phase = "active"
    /\ Len(books) > 0
    /\ searchState' = Some([query |-> searchQuery,
                            filters |-> [author |-> filterForm.author,
                                         year |-> OrUndefinedNum(filterForm.year),
                                         subject |-> filterForm.subject]])
    /\ lastOp' = Op("onBookClick", 0)
    /\ UNCHANGED <<phase, queryVars, debounceVars, lastEmitted, sessionVars,
                   observerVars, callerVars>>

(***************************************************************************)
(* The search pipeline                                                     *)
(***************************************************************************)
TickMs == DebounceMs \div TicksPerQuiet

Tick ==
    /\ timer > 0
    /\ timer' = Max(timer - TickMs, 0)
    /\ sinceChange' = Min(sinceChange + TickMs, DebounceMs)
    /\ lastOp' = Op("tick", 0)
    /\ UNCHANGED <<burst, phase, queryVars, lastEmitted, sessionVars, observerVars,
                   searchState, callerVars>>

\* The debounce timer fires: distinctUntilChanged, reset tap, switchMap.
DebounceFire ==
    /\ timer = 0
    /\ timer' = NoTimer
    /\ IF Passes(Combined)
       THEN LET s == SwitchMap(ResetTap([Comp EXCEPT !.moreFetches = LeaveSession(@)]),
                               Combined)
            IN  /\ Within(s)
                /\ lastEmitted' = Some(Combined)
                /\ Apply(s, "dispatch")
       ELSE /\ lastOp' = Op("suppressed", 0)
            /\ UNCHANGED <<lastEmitted, sessionVars>>
    /\ UNCHANGED <<phase, queryVars, sinceChange, burst, observerVars, searchState, callerVars>>

\* The http call of the first page ends. subscribe() has no error handler: an
\* error notification would end the pipeline with the session left as it is.
SettleFirst ==
    /\ firstFetch # None
    /\ \E outcome \in Outcomes :
          LET n == Respond(ParamsOf(firstFetch[1]), outcome)
              s0 == [Comp EXCEPT !.firstFetch = None, !.error = (outcome = "error")]
              s == IF n.kind = "next" THEN ResultTap(s0, n.value) ELSE s0
          IN  Within(s) /\ Apply(s, "settleFirst")
    /\ UNCHANGED <<phase, queryVars, debounceVars, lastEmitted, observerVars,
                   searchState, callerVars>>

LoadMore ==
    /\ phase = "active"
    /\ LET s == LoadMoreOn(Comp)
       IN  Within(s) /\ Apply(s, "loadMore")
    /\ UNCHANGED <<phase, queryVars, debounceVars, lastEmitted, observerVars,
                   searchState, callerVars>>

Remove(seq, i) == SubSeq(seq, 1, i - 1) \o SubSeq(seq, i + 1, Len(seq))

\* The http call of a next page ends; loadMore's subscribe has a next
\* handler only.
SettleMore ==
    \E i \in 1..Len(moreFetches) :
      \E outcome \in Outcomes :
        /\ LET n == Respond(ParamsOf(moreFetches[i]), outcome)
               s0 == [Comp EXCEPT !.moreFetches = Remove(@, i),
                                  !.error = (outcome = "error")]
               s == IF n.kind = "next" THEN MergeMore(s0, n.value) ELSE s0
           IN  Apply(s, "settleMore")
        /\ UNCHANGED <<phase, queryVars, debounceVars, lastEmitted, observerVars,
                       searchState, callerVars>>

(***************************************************************************)
(* Infinite scroll                                                         *)
(***************************************************************************)
ResetupTimerFire ==
    /\ resetupTimers > 0
    /\ resetupTimers' = resetupTimers - 1
    /\ SetupIntersectionObserver
    /\ lastOp' = Op("resetup", 0)
    /\ UNCHANGED <<phase, queryVars, debounceVars, lastEmitted, books, isLoading,
                   isLoadingMore, currentPage, totalResults, hasMoreResults,
                   firstFetch, moreFetches, leaked, scrollTrigger,
                   sentinelVisible, searchState, callerVars>>

\* The 500 ms timer: if the sentinel is there, a new observer starts
\* observing it and is told the sentinel's current visibility.
SetupTimerFire ==
    /\ setupTimers > 0
    /\ setupTimers' = setupTimers - 1
    /\ IF scrollTrigger
       THEN /\ leaked' = leaked + (IF observer = "connected" THEN 1 ELSE 0)
            /\ leaked' <= MaxLeaked
            /\ observer' = "connected"
            /\ LET s == CallbackOn(Comp, sentinelVisible)
               IN  Within(s) /\ Apply(s, "observe")
       ELSE /\ lastOp' = Op("noSentinel", 0)
            /\ UNCHANGED <<leaked, observer, sessionVars>>
    /\ UNCHANGED <<phase, queryVars, debounceVars, lastEmitted, scrollTrigger,
                   sentinelVisible, searchState, callerVars>>

\* The sentinel enters or leaves the observed zone.
VisibilityChange ==
    /\ phase = "active"
    /\ scrollTrigger
    /\ sentinelVisible' = ~sentinelVisible
    /\ LET s == Deliver(Comp, Connected, ~sentinelVisible)
       IN  Within(s) /\ Apply(s, "visibility")
    /\ UNCHANGED <<phase, queryVars, debounceVars, lastEmitted, setupTimers,
                   observer, leaked, scrollTrigger, searchState, callerVars>>

(***************************************************************************)
(* Spec: the search session of a view without the sentinel element; the    *)
(* query text and the author filter change, loadMore is called directly.   *)
(***************************************************************************)
Next ==
    \/ NgOnInit
    \/ NgAfterViewInit(FALSE)
    \/ \E value \in Queries : OnSearchInput(value)
    \/ \E value \in Forms : FilterChange(value)
    \/ ClearFilters
    \/ Tick
    \/ DebounceFire
    \/ SettleFirst
    \/ LoadMore
    \/ SettleMore
    \/ ResetupTimerFire
    \/ SetupTimerFire

Spec == Init /\ [][Next]_vars

(***************************************************************************)
(* SpecDedupe: the query text and the search type change.                  *)
(***************************************************************************)
NextDedupe ==
    \/ NgOnInit
    \/ NgAfterViewInit(FALSE)
    \/ \E value \in Queries : OnSearchInput(value)
    \/ \E value \in SearchTypes : SearchTypeChange(value)
    \/ ClearFilters
    \/ Tick
    \/ DebounceFire
    \/ SettleFirst
    \/ LoadMore
    \/ SettleMore
    \/ ResetupTimerFire
    \/ SetupTimerFire

SpecDedupe == Init /\ [][NextDedupe]_vars

(***************************************************************************)
(* SpecScroll: a view with the sentinel; loadMore is called by the         *)
(* IntersectionObserver callback only, the query text changes.             *)
(***************************************************************************)
NextScroll ==
    \/ NgOnInit
    \/ NgAfterViewInit(TRUE)
    \/ \E value \in Queries : OnSearchInput(value)
    \/ Tick
    \/ DebounceFire
    \/ SettleFirst
    \/ SettleMore
    \/ ResetupTimerFire
    \/ SetupTimerFire
    \/ VisibilityChange

SpecScroll == Init /\ [][NextScroll]_vars

(***************************************************************************)
(* SpecDestroy: the view with the sentinel, up to and after ngOnDestroy.   *)
(***************************************************************************)
NextDestroy ==
    \/ NgOnInit
    \/ NgAfterViewInit(TRUE)
    \/ \E value \in Queries : OnSearchInput(value)
    \/ Tick
    \/ DebounceFire
    \/ SettleFirst
    \/ SettleMore
    \/ ResetupTimerFire
    \/ SetupTimerFire
    \/ VisibilityChange
    \/ NgOnDestroy

SpecDestroy == Init /\ [][NextDestroy]_vars

(***************************************************************************)
(* SpecPages: one query, and loadMore called page after page up to         *)
(* MaxServicePage.                                                         *)
(***************************************************************************)
LoadMoreFurther ==
    /\ phase = "active"
    /\ LET s == LoadMoreOn(Comp)
       IN  /\ s.currentPage <= MaxServicePage
           /\ Apply(s, "loadMore")
    /\ UNCHANGED <<phase, queryVars, debounceVars, lastEmitted, observerVars,
                   searchState, callerVars>>

NextPages ==
    \/ NgOnInit
    \/ NgAfterViewInit(FALSE)
    \/ OnSearchInput(<<"a">>)
    \/ Tick
    \/ DebounceFire
    \/ SettleFirst
    \/ LoadMoreFurther
    \/ SettleMore
    \/ ResetupTimerFire
    \/ SetupTimerFire

SpecPages == Init /\ [][NextPages]_vars

(***************************************************************************)
(* SpecLive: one query, loadMore called directly; every timer fires and    *)
(* every http call ends.                                                   *)
(***************************************************************************)
NextLive ==
    \/ NgOnInit
    \/ NgAfterViewInit(FALSE)
    \/ OnSearchInput(<<"a">>)
    \/ Tick
    \/ DebounceFire
    \/ SettleFirst
    \/ LoadMore
    \/ SettleMore
    \/ ResetupTimerFire
    \/ SetupTimerFire

SpecLive ==
    /\ Init /\ [][NextLive]_vars
    /\ WF_vars(Tick)
    /\ WF_vars(DebounceFire)
    /\ WF_vars(SettleFirst)
    /\ WF_vars(SettleMore)
    /\ WF_vars(ResetupTimerFire)
    /\ WF_vars(SetupTimerFire)

(***************************************************************************)
(* SpecRestore: the search view is left through a book card and entered    *)
(* again; SearchStateService carries the snapshot from one SearchComponent *)
(* to the next. Only first pages are fetched.                              *)
(***************************************************************************)
RestoreForms == Forms \cup {[EmptyForm EXCEPT !.year = Some(0)]}

\* The router creates a new SearchComponent; the root-provided
\* SearchStateService is the one of the component before.
NavigateBack ==
    /\ phase = "destroyed"
    /\ phase' = "constructed"
    /\ searchQuery' = <<>>
    /\ filterForm' = EmptyForm
    /\ searchType' = "title"
    /\ timer' = NoTimer
    /\ sinceChange' = DebounceMs
    /\ burst' = 0
    /\ lastEmitted' = None
    /\ books' = <<>>
    /\ isLoading' = FALSE
    /\ isLoadingMore' = FALSE
    /\ currentPage' = 1
    /\ totalResults' = 0
    /\ hasMoreResults' = TRUE
    /\ firstFetch' = None
    /\ moreFetches' = <<>>
    /\ resetupTimers' = 0
    /\ setupTimers' = 0
    /\ observer' = "none"
    /\ leaked' = 0
    /\ scrollTrigger' = FALSE
    /\ sentinelVisible' = FALSE
    /\ lastOp' = Op("constructor", 0)
    /\ UNCHANGED <<searchState, callerVars>>

NextRestore ==
    \/ NgOnInit
    \/ NgAfterViewInit(FALSE)
    \/ \E value \in Queries : OnSearchInput(value)
    \/ \E value \in RestoreForms : FilterChange(value)
    \/ ClearFilters
    \/ Tick
    \/ DebounceFire
    \/ SettleFirst
    \/ ResetupTimerFire
    \/ SetupTimerFire
    \/ OnBookClick
    \/ NgOnDestroy
    \/ NavigateBack

SpecRestore == Init /\ [][NextRestore]_vars

(***************************************************************************)
(* SpecService: BookService.searchBooks called directly, for every         *)
(* argument of a small set; its http call ends in every outcome.           *)
(***************************************************************************)
ServiceQueries == {<<>>, <<" ">>, <<" ", "\t">>, <<"a">>, <<" ", "a", " ">>}
ServiceTexts == {None, Some(<<>>), Some(<<" ">>), Some(<<"x">>), Some(<<" ", "x">>)}
ServiceYears == {None, Some(0), Some(1999)}
ServiceSubjects == {None, Some(<<"F">>), Some(<<"\t">>), Some(<<"F", " ">>)}
ServiceRequests ==
    {[query |-> q, filters |-> [author |-> a, year |-> y, subject |-> s], page |-> p] :
        q \in ServiceQueries, a \in ServiceTexts, y \in ServiceYears,
        s \in ServiceSubjects, p \in 1..MaxServicePage}

InitService ==
    /\ Constructed /\ searchState = None /\ DetailConstructed /\ NoLocal
    /\ request \in {Some(r) : r \in ServiceRequests}
    /\ response = None

componentVars == <<phase, queryVars, debounceVars, lastEmitted, sessionVars,
                   observerVars>>

\* The caller subscribes to searchBooks(query, filters, page): either of(...)
\* notifies at once, or an http call is in flight.
CallSearchBooks ==
    /\ request # None /\ response = None
    /\ LET out == SearchBooks(request[1].query, request[1].filters, request[1].page)
       IN  response' = Some(IF out.immediate
                            THEN [http |-> None,
                                  notified |-> <<Notify("next", out.result)>>]
                            ELSE [http |-> Some(out.params), notified |-> <<>>])
    /\ lastOp' = Op("searchBooks", 1)
    /\ UNCHANGED <<componentVars, localVars, searchState, request, detail>>

\* The http call ends and the caller is notified.
HttpEnds ==
    /\ response # None
    /\ response[1].http # None /\ response[1].notified = <<>>
    /\ \E outcome \in Outcomes :
          /\ response' = Some([response[1] EXCEPT
                                 !.notified = <<Respond(response[1].http[1], outcome)>>])
          /\ lastOp' = [Op("httpEnds", 0) EXCEPT !.error = (outcome = "error")]
    /\ UNCHANGED <<componentVars, localVars, searchState, request, detail>>

NextService ==
    \/ CallSearchBooks
    \/ HttpEnds

SpecService == InitService /\ [][NextService]_vars

(***************************************************************************)
(* SpecDetail: BookDetailComponent and BookService.getBookDetails.         *)
(***************************************************************************)
PlainWorkIds == {<<"OL45804W">>, <<"OL1W">>, <<"OL2W">>, <<"OL3W">>, <<"OL4W">>,
                 <<"OL5W">>}
\* The 'id' route parameter: absent, a work id, a work key.
WorkIds == {<<>>} \cup PlainWorkIds \cup {<<"/works/">> \o id : id \in PlainWorkIds}

DetailErrors == {"0 Unknown Error", "404 Not Found", "500 Internal Server Error",
                 "503 Service Unavailable", "parse error"}
\* description is absent, a string, or an object with a value.
DetailBooks == {[title |-> "T", description |-> [form |-> f, text |-> t]] :
                    f \in {"absent", "string", "object"}, t \in {"text"}}
NoBook == [title |-> "", description |-> [form |-> "absent", text |-> ""]]
DetailOutcomes == {[kind |-> "error", error |-> err, book |-> NoBook] :
                       err \in DetailErrors}
                  \cup {[kind |-> "ok", error |-> "", book |-> b] : b \in DetailBooks}

\* const cleanWorkId = workId.startsWith('/works/') ? workId : `/works/${workId}`
CleanWorkId(workId) ==
    IF Len(workId) > 0 /\ workId[1] = "/works/" THEN workId
    ELSE <<"/works/">> \o workId

DetailUrl(workId) == <<"https://openlibrary.org">> \o CleanWorkId(workId) \o <<".json">>

\* getBookDetails with a catchError that returns of(null) instead of throwing.
GetBookDetailsSwallows(outcome) ==
    IF outcome.kind = "error" THEN Notify("next", None)
    ELSE Notify("next", Some(outcome.book))

\* http.get<BookDetail>(url).pipe(catchError(error => { throw error; }))
GetBookDetailsNotifies(outcome) ==
    IF outcome.kind = "error" THEN Notify("error", outcome.error)
    ELSE Notify("next", Some(outcome.book))

\* book$: tap(() => { isLoading = false; hasError = false }) and
\* catchError(() => { isLoading = false; hasError = true; return of(null) }).
BookPipe(d, n) ==
    IF n.kind = "next"
    THEN [d EXCEPT !.isLoading = FALSE, !.hasError = FALSE]
    ELSE [d EXCEPT !.isLoading = FALSE, !.hasError = TRUE]

BookEmitted(n) == IF n.kind = "next" THEN n.value ELSE None

InitDetail == Constructed /\ searchState = None /\ NoCaller

DetailNgOnInit(id) ==
    /\ lastOp.op = "constructor"
    /\ detail' = IF id = <<>>
                 THEN [detail EXCEPT !.workId = id, !.hasError = TRUE,
                                     !.isLoading = FALSE]
                 ELSE [detail EXCEPT !.workId = id]
    /\ lastOp' = Op("detailNgOnInit", 0)
    /\ UNCHANGED <<componentVars, localVars, searchState, request, response>>

\* The template's async pipe subscribes to book$: the http call is made.
DetailSubscribes ==
    /\ lastOp.op = "detailNgOnInit"
    /\ detail.workId # <<>>
    /\ request' = Some(DetailUrl(detail.workId))
    /\ detail' = [detail EXCEPT !.fetches = @ + 1]
    /\ lastOp' = Op("detailSubscribes", 0)
    /\ UNCHANGED <<componentVars, localVars, searchState, response>>

\* The http call ends; response keeps what getBookDetails notified and what
\* book$ emitted to the template.
DetailSettles ==
    /\ request # None
    /\ lastOp.op = "detailSubscribes"
    /\ \E outcome \in DetailOutcomes :
          LET n == GetBookDetailsNotifies(outcome)
          IN  /\ detail' = BookPipe(detail, n)
              /\ response' = Some([service |-> n, emitted |-> BookEmitted(n)])
              /\ lastOp' = [Op("detailSettles", 0) EXCEPT
                              !.error = (outcome.kind = "error")]
    /\ request' = None
    /\ UNCHANGED <<componentVars, localVars, searchState>>

NextDetail ==
    \/ \E id \in WorkIds : DetailNgOnInit(id)
    \/ DetailSubscribes
    \/ DetailSettles

SpecDetail == InitDetail /\ [][NextDetail]_vars

(***************************************************************************)
(* SpecState: SearchStateService called directly. request is the sequence  *)
(* of the calls made so far, response the value the last getState or       *)
(* hasState call returned.                                                 *)
(***************************************************************************)
SavedStates ==
    {[query |-> q, filters |-> [author |-> a, year |-> y, subject |-> <<>>]] :
        q \in Queries, a \in {<<>>, <<"x">>}, y \in {None, Some(1999)}}

StateCall(op, arg) == [op |-> op, arg |-> arg]

\* A slot that keeps the first state saved into it.
NextKeepsFirst(slot, state) == IF slot = None THEN Some(state) ELSE slot

\* BehaviorSubject.next(state), BehaviorSubject.next(null), BehaviorSubject.value
NextValue(slot, state) == Some(state)
NextNull(slot) == None
ValueOf(slot) == slot

InitState == Constructed /\ searchState = None /\ NoCaller

SaveState(state) ==
    /\ Len(request) < MaxStateCalls
    /\ searchState' = NextValue(searchState, state)
    /\ request' = Append(request, StateCall("saveState", Some(state)))
    /\ lastOp' = Op("saveState", 0)
    /\ UNCHANGED <<componentVars, localVars, response, detail>>

ClearState ==
    /\ Len(request) < MaxStateCalls
    /\ searchState' = NextNull(searchState)
    /\ request' = Append(request, StateCall("clearState", None))
    /\ lastOp' = Op("clearState", 0)
    /\ UNCHANGED <<componentVars, localVars, response, detail>>

GetState ==
    /\ Len(request) < MaxStateCalls
    /\ response' = Some([op |-> "getState", value |-> ValueOf(searchState)])
    /\ request' = Append(request, StateCall("getState", None))
    /\ lastOp' = Op("getState", 0)
    /\ UNCHANGED <<componentVars, localVars, searchState, detail>>

HasState ==
    /\ Len(request) < MaxStateCalls
    /\ response' = Some([op |-> "hasState", value |-> <<ValueOf(searchState) # None>>])
    /\ request' = Append(request, StateCall("hasState", None))
    /\ lastOp' = Op("hasState", 0)
    /\ UNCHANGED <<componentVars, localVars, searchState, detail>>

NextState ==
    \/ \E state \in SavedStates : SaveState(state)
    \/ ClearState
    \/ GetState
    \/ HasState

SpecState == InitState /\ [][NextState]_vars

(***************************************************************************)
(* SpecFavorites: FavoritesService over a localStorage whose accesses may  *)
(* fail. JSON text is a sequence of tokens.                                *)
(***************************************************************************)
FavKeys == {"/works/OL1W", "/works/OL2W"}
FavBooks == {[key |-> k, title |-> t] : k \in FavKeys, t \in {"T1", "T2"}}

\* Lists of books without a repeated key: what the service itself stores.
FavLists ==
    {l \in UNION {[1..n -> FavBooks] : n \in 0..Cardinality(FavKeys)} :
        \A i, j \in 1..Len(l) : l[i].key = l[j].key => i = j}

\* JSON.stringify of a Book[]
StringifyBook(book) == <<"{", book.key, book.title, "}">>
RECURSIVE StringifyBooks(_)
StringifyBooks(list) ==
    IF list = <<>> THEN <<>>
    ELSE StringifyBook(Head(list))
         \o (IF Tail(list) = <<>> THEN <<>> ELSE <<",">>)
         \o StringifyBooks(Tail(list))
Stringify(list) == <<"[">> \o StringifyBooks(list) \o <<"]">>

\* JSON.parse: ok is FALSE where it throws a SyntaxError.
RECURSIVE ParseBooks(_)
ParseBooks(tokens) ==
    IF tokens = <<>> THEN [ok |-> TRUE, value |-> <<>>]
    ELSE IF Len(tokens) < 4 \/ tokens[1] # "{" \/ tokens[4] # "}"
    THEN [ok |-> FALSE, value |-> <<>>]
    ELSE LET book == [key |-> tokens[2], title |-> tokens[3]]
         IN  IF Len(tokens) = 4 THEN [ok |-> TRUE, value |-> <<book>>]
             ELSE IF tokens[5] # "," \/ Len(tokens) = 5
             THEN [ok |-> FALSE, value |-> <<>>]
             ELSE LET rest == ParseBooks(SubSeq(tokens, 6, Len(tokens)))
                  IN  [ok |-> rest.ok,
                       value |-> IF rest.ok THEN <<book>> \o rest.value ELSE <<>>]
Parse(text) ==
    IF Len(text) < 2 \/ text[1] # "[" \/ text[Len(text)] # "]"
    THEN [ok |-> FALSE, value |-> <<>>]
    ELSE ParseBooks(SubSeq(text, 2, Len(text) - 1))

\* What localStorage may hold under the favorites key: nothing, the empty
\* string, text cut short, the text of a list the service wrote.
Truncated == <<"[", "{", "/works/OL1W">>
StoredFavorites ==
    {None, Some(<<>>), Some(Truncated)} \cup {Some(Stringify(l)) : l \in FavLists}

\* loadFromStorage without its try/catch.
LoadFromStorageUnguarded(saved, fails) ==
    IF fails THEN [threw |-> TRUE, failed |-> TRUE, value |-> <<>>]
    ELSE IF saved = None \/ saved[1] = <<>>
    THEN [threw |-> FALSE, failed |-> FALSE, value |-> <<>>]
    ELSE LET parsed == Parse(saved[1])
         IN  [threw |-> ~parsed.ok, failed |-> ~parsed.ok, value |-> parsed.value]

\* loadFromStorage: fails tells whether localStorage.getItem throws.
LoadFromStorage(saved, fails) ==
    IF fails THEN [threw |-> FALSE, failed |-> TRUE, value |-> <<>>]
    ELSE IF saved = None \/ saved[1] = <<>>
    THEN [threw |-> FALSE, failed |-> FALSE, value |-> <<>>]
    ELSE LET parsed == Parse(saved[1])
         IN  [threw |-> FALSE, failed |-> ~parsed.ok, value |-> parsed.value]

\* saveToStorage without its try/catch.
SaveToStorageUnguarded(saved, list, fails) ==
    IF fails THEN [threw |-> TRUE, failed |-> TRUE, saved |-> saved]
    ELSE [threw |-> FALSE, failed |-> FALSE, saved |-> Some(Stringify(list))]

\* saveToStorage: fails tells whether localStorage.setItem throws.
SaveToStorage(saved, list, fails) ==
    IF fails THEN [threw |-> FALSE, failed |-> TRUE, saved |-> saved]
    ELSE [threw |-> FALSE, failed |-> FALSE, saved |-> Some(Stringify(list))]

IsFavoriteSync(list, bookKey) == \E i \in 1..Len(list) : list[i].key = bookKey

RECURSIVE Without(_, _)
Without(list, bookKey) ==
    IF list = <<>> THEN <<>>
    ELSE IF Head(list).key # bookKey THEN <<Head(list)>> \o Without(Tail(list), bookKey)
    ELSE Without(Tail(list), bookKey)

\* addFavorite without the isFavoriteSync test.
AddFavoriteAlways(f, book) == [f EXCEPT !.list = Append(@, book), !.pending = TRUE]

\* A signal set() schedules the effect, whatever the new array holds.
AddFavoriteTo(f, book) ==
    IF ~IsFavoriteSync(f.list, book.key)
    THEN [f EXCEPT !.list = Append(@, book), !.pending = TRUE]
    ELSE f

RemoveFavoriteFrom(f, bookKey) ==
    [f EXCEPT !.list = Without(@, bookKey), !.pending = TRUE]

ToggleFavoriteIn(f, book) ==
    IF IsFavoriteSync(f.list, book.key) THEN RemoveFavoriteFrom(f, book.key)
    ELSE AddFavoriteTo(f, book)

InitFavorites ==
    /\ Constructed /\ searchState = None /\ request = None /\ response = None
    /\ DetailConstructed
    /\ storage \in {[favorites |-> s, theme |-> None] : s \in StoredFavorites}
    /\ favorites = [constructed |-> FALSE, list |-> <<>>, pending |-> FALSE]
    /\ theme = [constructed |-> FALSE, isDarkMode |-> FALSE, bodyDark |-> FALSE,
                pending |-> FALSE, prefersDark |-> FALSE]
    /\ thrown = None

\* new FavoritesService(): the field initializer reads the storage, the
\* constructor registers the effect, which runs once to begin with.
FavoritesConstruct ==
    /\ ~favorites.constructed
    /\ thrown = None
    /\ \E fails \in BOOLEAN :
          LET loaded == LoadFromStorage(storage.favorites, fails)
          IN  /\ IF loaded.threw
                 THEN thrown' = Some("loadFromStorage") /\ UNCHANGED favorites
                 ELSE /\ thrown' = None
                      /\ favorites' = [constructed |-> TRUE, list |-> loaded.value,
                                        pending |-> TRUE]
              /\ lastOp' = [Op("favoritesConstruct", 0) EXCEPT !.error = loaded.failed]
    /\ UNCHANGED <<componentVars, searchState, request, response, detail, storage, theme>>

AddFavorite(book) ==
    /\ favorites.constructed
    /\ favorites' = AddFavoriteTo(favorites, book)
    /\ thrown' = None
    /\ lastOp' = Op("addFavorite", 0)
    /\ UNCHANGED <<componentVars, searchState, request, response, detail, storage, theme>>

RemoveFavorite(bookKey) ==
    /\ favorites.constructed
    /\ favorites' = RemoveFavoriteFrom(favorites, bookKey)
    /\ thrown' = None
    /\ lastOp' = Op("removeFavorite", 0)
    /\ UNCHANGED <<componentVars, searchState, request, response, detail, storage, theme>>

ToggleFavorite(book) ==
    /\ favorites.constructed
    /\ favorites' = ToggleFavoriteIn(favorites, book)
    /\ thrown' = None
    /\ lastOp' = Op("toggleFavorite", 0)
    /\ UNCHANGED <<componentVars, searchState, request, response, detail, storage, theme>>

\* The effect runs: saveToStorage(this.favorites()).
FavoritesEffect ==
    /\ favorites.pending
    /\ \E fails \in BOOLEAN :
          LET saved == SaveToStorage(storage.favorites, favorites.list, fails)
          IN  /\ storage' = [storage EXCEPT !.favorites = saved.saved]
              /\ thrown' = IF saved.threw THEN Some("saveToStorage") ELSE None
              /\ lastOp' = [Op("favoritesEffect", 0) EXCEPT !.error = saved.failed]
    /\ favorites' = [favorites EXCEPT !.pending = FALSE]
    /\ UNCHANGED <<componentVars, searchState, request, response, detail, theme>>

NextFavorites ==
    \/ FavoritesConstruct
    \/ \E book \in FavBooks : AddFavorite(book)
    \/ \E bookKey \in FavKeys : RemoveFavorite(bookKey)
    \/ \E book \in FavBooks : ToggleFavorite(book)
    \/ FavoritesEffect

SpecFavorites == InitFavorites /\ [][NextFavorites]_vars

(***************************************************************************)
(* SpecTheme: ThemeService over a localStorage whose accesses may fail.    *)
(***************************************************************************)
\* What localStorage may hold under the theme key: nothing, what the service
\* writes, other text.
StoredThemes ==
    {None, Some("dark"), Some("light"), Some("Dark"), Some("auto"), Some("sepia"),
     Some("")}

\* loadTheme: fails tells whether localStorage.getItem throws; there is no
\* try/catch, the exception leaves the field initializer.
LoadTheme(saved, prefersDark, fails) ==
    IF fails THEN [threw |-> TRUE, failed |-> TRUE, value |-> FALSE]
    ELSE IF saved # None
    THEN [threw |-> FALSE, failed |-> FALSE, value |-> (saved[1] = "dark")]
    ELSE [threw |-> FALSE, failed |-> FALSE, value |-> prefersDark]

\* applyTheme: the body class is set before localStorage.setItem, which
\* throws out of applyTheme when fails.
ApplyTheme(saved, isDark, fails) ==
    LET name == IF isDark THEN "dark" ELSE "light"
    IN  IF fails THEN [threw |-> TRUE, failed |-> TRUE, bodyDark |-> isDark,
                       saved |-> saved]
        ELSE [threw |-> FALSE, failed |-> FALSE, bodyDark |-> isDark,
              saved |-> Some(name)]

InitTheme ==
    /\ Constructed /\ searchState = None /\ request = None /\ response = None
    /\ DetailConstructed
    /\ storage \in {[favorites |-> None, theme |-> s] : s \in StoredThemes}
    /\ favorites = [constructed |-> FALSE, list |-> <<>>, pending |-> FALSE]
    /\ \E prefers \in BOOLEAN :
          theme = [constructed |-> FALSE, isDarkMode |-> FALSE, bodyDark |-> FALSE,
                   pending |-> FALSE, prefersDark |-> prefers]
    /\ thrown = None

\* new ThemeService(): the field initializer reads the storage, the
\* constructor registers the effect, which runs once to begin with. After an
\* exception the injector has no instance and constructs again when asked.
ThemeConstruct ==
    /\ ~theme.constructed
    /\ \E fails \in BOOLEAN :
          LET loaded == LoadTheme(storage.theme, theme.prefersDark, fails)
          IN  /\ IF loaded.threw
                 THEN thrown' = Some("loadTheme") /\ UNCHANGED theme
                 ELSE /\ thrown' = None
                      /\ theme' = [theme EXCEPT !.constructed = TRUE,
                                                !.isDarkMode = loaded.value,
                                                !.pending = TRUE]
              /\ lastOp' = [Op("themeConstruct", 0) EXCEPT !.error = loaded.failed]
    /\ UNCHANGED <<componentVars, searchState, request, response, detail, storage,
                   favorites>>

ToggleTheme ==
    /\ theme.constructed
    /\ theme' = [theme EXCEPT !.isDarkMode = ~@, !.pending = TRUE]
    /\ thrown' = None
    /\ lastOp' = Op("toggleTheme", 0)
    /\ UNCHANGED <<componentVars, searchState, request, response, detail, storage,
                   favorites>>

\* The effect runs: applyTheme(this.isDarkMode()).
ThemeEffect ==
    /\ theme.pending
    /\ \E fails \in BOOLEAN :
          LET applied == ApplyTheme(storage.theme, theme.isDarkMode, fails)
          IN  /\ storage' = [storage EXCEPT !.theme = applied.saved]
              /\ theme' = [theme EXCEPT !.bodyDark = applied.bodyDark,
                                        !.pending = FALSE]
              /\ thrown' = IF applied.threw THEN Some("applyTheme") ELSE None
              /\ lastOp' = [Op("themeEffect", 0) EXCEPT !.error = applied.failed]
    /\ UNCHANGED <<componentVars, searchState, request, response, detail, favorites>>

NextTheme ==
    \/ ThemeConstruct
    \/ ToggleTheme
    \/ ThemeEffect

SpecTheme == InitTheme /\ [][NextTheme]_vars

(***************************************************************************)
(* Steps, as the properties below recognise them                           *)
(***************************************************************************)
FormOf(value) == [author |-> value.author, year |-> value.year,
                  subject |-> value.subject]

\* The fetch was issued for other criteria than the last dispatched ones.
Stale(call) ==
    /\ lastEmitted # None
    /\ \/ call.query # lastEmitted[1].query
       \/ call.filters # ToSearchFilters(FormOf(lastEmitted[1]))

FirstPageSettles == lastOp'.op = "settleFirst" /\ firstFetch # None
NextPageSettles(i) ==
    /\ lastOp'.op = "settleMore"
    /\ i \in 1..Len(moreFetches)
    /\ moreFetches' = Remove(moreFetches, i)
Settles == FirstPageSettles \/ \E i \in 1..Len(moreFetches) : NextPageSettles(i)
DebounceFires == timer = 0 /\ timer' = NoTimer /\ lastOp'.op \in {"dispatch", "suppressed"}
Dispatches == DebounceFires /\ lastOp'.op = "dispatch"

(***************************************************************************)
(* Claims                                                                  *)
(***************************************************************************)

\* C1: when a fetch (first page or next page) settles and the criteria it was
\* issued for are no longer the current (last dispatched) criteria, the
\* settlement leaves books, totalResults and hasMoreResults unchanged.
StaleSettlementNeverMutates ==
    [][((FirstPageSettles /\ Stale(firstFetch[1]))
        \/ \E i \in 1..Len(moreFetches) : NextPageSettles(i) /\ Stale(moreFetches[i]))
       => UNCHANGED <<books, totalResults, hasMoreResults>>]_vars

\* C1 witness: a next-page result was merged into the books of a session
\* whose last dispatched query is another one.
StaleNextPageMerged ==
    /\ lastOp = Op("settleMore", 0)
    /\ lastEmitted # None
    /\ \E i \in 1..Len(books) : books[i].key[1] # Trim(lastEmitted[1].query)

\* C4: isLoading and isLoadingMore are never both true; in particular a
\* dispatch of new criteria while a next-page fetch is in flight does not
\* lead to a state with both flags set.
NeverBothLoading == ~(isLoading /\ isLoadingMore)

\* C6: immediately after any settlement is merged, hasMoreResults equals
\* (books.length < totalResults) for the stored totalResults.
HasMoreMatchesStoredTotalAfterSettlement ==
    [][Settles => (hasMoreResults' = (Len(books') < totalResults'))]_vars

\* C6 witness: a next-page soft failure left hasMoreResults false below the
\* stored total.
HasMoreFalseBelowTotal ==
    /\ lastOp.op = "settleMore" /\ lastOp.error
    /\ ~hasMoreResults
    /\ Len(books) = Limit
    /\ totalResults > Limit

\* C7: after any page settles, books.length <= totalResults (the server never
\* returns more items for one criteria than the total it reports for them).
BooksWithinTotalAfterSettlement ==
    [][Settles => Len(books') <= totalResults']_vars

\* C7 witness: a next-page settlement left more books than the stored total.
BooksAboveTotal ==
    /\ lastOp = Op("settleMore", 0)
    /\ Len(books) > totalResults

\* C2 (as claimed): changes that follow one another within the quiet period
\* lead to exactly one fetch, for the last criteria, once the period is over.
ExactlyOneFetchPerBurst ==
    [][/\ (firstFetch' # None /\ firstFetch' # firstFetch) => DebounceFires
       /\ (DebounceFires /\ burst >= 2) =>
            /\ sinceChange >= DebounceMs
            /\ lastOp'.calls = 1
            /\ lastEmitted' = Some(Combined)]_vars

\* C2 (amended): a first-page fetch is issued only when the quiet period has
\* passed since the last change, and then for the last criteria; the end of a
\* quiet period issues exactly one such fetch, unless the last criteria equal
\* the criteria dispatched before, and then it issues none.
FetchOnlyAfterQuietPeriod ==
    [][/\ (firstFetch' # None /\ firstFetch' # firstFetch) => Dispatches
       /\ Dispatches =>
            /\ sinceChange >= DebounceMs
            /\ lastOp'.calls = 1
            /\ lastEmitted' = Some(Combined)
            /\ firstFetch' # None =>
                 firstFetch'[1] = Call(searchQuery, ToSearchFilters(filterForm), 1)
       /\ DebounceFires =>
            (Dispatches <=> (lastEmitted = None \/ lastEmitted[1] # Combined))
       /\ (DebounceFires /\ ~Dispatches) =>
            (lastOp'.calls = 0 /\ UNCHANGED firstFetch)]_vars

\* C2 witness: a quiet period of several changes has ended in one fetch.
BurstEndedInOneFetch ==
    /\ lastOp = Op("dispatch", 1)
    /\ burst >= 2
    /\ firstFetch # None
    /\ timer = NoTimer

LoadMoreNoOpWhenBlocked ==
    [][(lastOp'.op = "loadMore" /\ (isLoadingMore \/ ~hasMoreResults))
       => (/\ lastOp'.calls = 0
           /\ UNCHANGED <<books, totalResults, currentPage, hasMoreResults,
                          isLoading, isLoadingMore, firstFetch, moreFetches>>)]_vars

\* C5 witness: loadMore was called during a next-page fetch and did nothing.
LoadMoreRejectedWhileLoading ==
    /\ lastOp = Op("loadMore", 0)
    /\ isLoadingMore
    /\ hasMoreResults
    /\ Len(moreFetches) = 1

\* C8 (as claimed): books.length shrinks only at a criteria change, and every
\* criteria change empties books at once.
CriteriaChanges ==
    /\ lastOp'.op \in {"change", "clearFilters"}
    /\ <<searchQuery, filterForm, searchType>>' # <<searchQuery, filterForm, searchType>>

ResetBeforeFirstPageFetch ==
    [][Dispatches =>
         /\ currentPage' = 1
         /\ books' = <<>>
         /\ firstFetch' # None =>
              /\ isLoading' /\ hasMoreResults'
              /\ firstFetch'[1] = Call(searchQuery, ToSearchFilters(filterForm), 1)]_vars

\* C9 witness: a dispatch during a next-page load has reset the page to 1.
DispatchResetPage ==
    /\ lastOp = Op("dispatch", 1)
    /\ firstFetch # None
    /\ isLoading /\ hasMoreResults /\ isLoadingMore
    /\ currentPage = 1
    /\ books = <<>>

\* C10: one visibility change, or one new observer, makes at most one loadMore
\* call; a callback during a next-page load calls nothing and changes
\* nothing; at most one next-page fetch is in flight.
OneNextPageFetchAtATime ==
    [][/\ Len(moreFetches') <= 1
       /\ lastOp'.op \in {"visibility", "observe"} =>
            /\ lastOp'.calls <= 1
            /\ isLoadingMore =>
                 (lastOp'.calls = 0 /\ UNCHANGED sessionVars)]_vars

\* C10 witness: one visibility change reached two connected observers and
\* one fetch was issued.
TwoCallbacksOneFetch ==
    /\ lastOp = Op("visibility", 1)
    /\ sentinelVisible
    /\ Connected = 2
    /\ isLoadingMore
    /\ Len(moreFetches) = 1

\* C11: after ngOnDestroy no IntersectionObserver observes the sentinel, not
\* even one created by a timer that was pending at destroy; no loadMore is
\* triggered, no fetch is dispatched and no settlement changes the session.
ObservationStoppedAfterDestroy ==
    [][/\ phase' = "destroyed" => Connected' = 0
       /\ phase = "destroyed" =>
            /\ lastOp'.calls = 0
            /\ UNCHANGED <<books, isLoading, isLoadingMore, currentPage,
                           totalResults, hasMoreResults, firstFetch,
                           moreFetches>>]_vars

\* C11 witness: a timer pending at destroy has created an observer on the
\* sentinel of the destroyed view.
ObserverCreatedAfterDestroy ==
    /\ phase = "destroyed"
    /\ lastOp = Op("observe", 0)
    /\ observer = "connected"

\* C12: every settlement that updates the result list, of the first page or
\* of a next page, has the scroll observer set up again: it schedules
\* setupIntersectionObserver.
RearmedAfterEverySettlement ==
    [][lastOp'.op \in {"settleFirst", "settleMore"}
       => resetupTimers' = resetupTimers + 1]_vars

\* C12 witness: a next page was merged, more results remain and the sentinel
\* is in view, and neither a timer nor a fetch is pending that could lead to
\* the next loadMore.
ScrollStalledAfterNextPage ==
    /\ lastOp = Op("settleMore", 0)
    /\ Len(books) = 2 * Limit
    /\ hasMoreResults
    /\ sentinelVisible
    /\ observer = "connected"
    /\ resetupTimers = 0 /\ setupTimers = 0
    /\ timer = NoTimer
    /\ firstFetch = None /\ moreFetches = <<>>

\* C13: for every page and every filter combination, searchBooks with an
\* empty or whitespace-only query notifies at once a result without books
\* and with totalResults 0, and makes no http call.
WhitespaceOnly(str) == \A i \in 1..Len(str) : str[i] \in {" ", "\t"}

BlankQueryShortCircuits ==
    (request # None /\ response # None /\ WhitespaceOnly(request[1].query))
    => /\ response[1].http = None
       /\ response[1].notified = <<Notify("next", [books |-> <<>>, totalResults |-> 0])>>

\* C13 witness: a whitespace-only query with filters, for a later page, was
\* answered at once.
WhitespaceQueryAnswered ==
    /\ request # None /\ response # None
    /\ request[1].query = <<" ", "\t">>
    /\ request[1].page = MaxServicePage
    /\ request[1].filters.author = Some(<<"x">>)
    /\ response[1].notified # <<>>

\* C14: a transport or parse error of a result-page fetch reaches the session
\* as a result, not as an error: after the settlement the loading flag of the
\* fetch is cleared and hasMoreResults is false; a failed first page leaves
\* no books and total 0, a failed next page leaves books as it was.
SoftFailureEndsSession ==
    [][/\ (lastOp'.op = "settleFirst" /\ lastOp'.error) =>
            /\ ~isLoading' /\ ~hasMoreResults'
            /\ books' = <<>> /\ totalResults' = 0
       /\ (lastOp'.op = "settleMore" /\ lastOp'.error) =>
            /\ ~isLoadingMore' /\ ~hasMoreResults'
            /\ books' = books /\ totalResults' = totalResults]_vars

\* C14 witness: the second page failed; the first page is kept and the
\* session is idle.
FailedNextPageKeptBooks ==
    /\ lastOp.op = "settleMore" /\ lastOp.error
    /\ Len(books) = Limit
    /\ ~isLoading /\ ~isLoadingMore /\ ~hasMoreResults
    /\ firstFetch = None /\ moreFetches = <<>>

\* C15: when the detail fetch fails getBookDetails notifies the error and the
\* view ends with hasError true and isLoading false; when it succeeds the
\* view ends with hasError false and isLoading false; in either case no
\* further fetch is made.
DetailEndsInErrorOrLoaded ==
    [][/\ detail'.fetches <= 1
       /\ lastOp'.op = "detailSettles" =>
            /\ ~detail'.isLoading
            /\ detail'.hasError = lastOp'.error
            /\ lastOp'.error => (/\ response'[1].service.kind = "error"
                                 /\ response'[1].emitted = None)
            /\ ~lastOp'.error => response'[1].emitted # None
            /\ request' = None
            /\ detail'.fetches = detail.fetches]_vars

\* C15 witness: the fetch for OL45804W failed with a transport error and the
\* view is in the error state.
DetailInErrorState ==
    /\ lastOp.op = "detailSettles" /\ lastOp.error
    /\ detail.workId = <<"OL45804W">>
    /\ detail.hasError /\ ~detail.isLoading
    /\ detail.fetches = 1
    /\ response # None
    /\ response[1].service.kind = "error"
    /\ response[1].service.value = "0 Unknown Error"

\* C16: when a next-page fetch settles that was issued for the session's
\* criteria and no reset of the session happened while it was in flight,
\* books becomes the previous books followed by the returned items in order,
\* isLoadingMore becomes false, currentPage is the requested page and
\* hasMoreResults tells whether books is still shorter than the returned
\* total.
InCurrentSession(call) ==
    /\ lastEmitted # None
    /\ ~Stale(call)
    /\ call.inSession

NextPageAppended ==
    [][\A i \in 1..Len(moreFetches) :
         (NextPageSettles(i) /\ InCurrentSession(moreFetches[i])) =>
           \E outcome \in Outcomes :
             LET result == Respond(ParamsOf(moreFetches[i]), outcome).value
             IN  /\ (outcome = "error") = lastOp'.error
                 /\ books' = books \o result.books
                 /\ hasMoreResults' = (Len(books') < result.totalResults)
                 /\ ~isLoadingMore'
                 /\ currentPage' = moreFetches[i].page]_vars

\* C16 witness: page 1 gave 20 items of more, the next page settled with 20
\* more: 40 books in order, more to come, page 2.
SecondPageAppended ==
    /\ lastOp = Op("settleMore", 0)
    /\ lastEmitted # None
    /\ Len(books) = 2 * Limit
    /\ books = Docs(BuildParams(lastEmitted[1].query,
                                ToSearchFilters(FormOf(lastEmitted[1])), 1))
               \o Docs(BuildParams(lastEmitted[1].query,
                                   ToSearchFilters(FormOf(lastEmitted[1])), 2))
    /\ totalResults > 2 * Limit
    /\ hasMoreResults
    /\ ~isLoadingMore
    /\ currentPage = 2

\* C17: when the first-page fetch of the current criteria settles (the http
\* call ends, or a blank query is answered at once inside the dispatch),
\* books is exactly the returned items, totalResults is the returned total,
\* isLoading is false and currentPage is 1.
FirstPageReplacesBooks ==
    [][/\ (FirstPageSettles /\ ~Stale(firstFetch[1])) =>
            \E outcome \in Outcomes :
              LET result == Respond(ParamsOf(firstFetch[1]), outcome).value
              IN  /\ (outcome = "error") = lastOp'.error
                  /\ books' = result.books
                  /\ totalResults' = result.totalResults
                  /\ ~isLoading'
                  /\ currentPage' = 1
       /\ (Dispatches /\ firstFetch' = None) =>
            /\ books' = <<>>
            /\ totalResults' = 0
            /\ ~isLoading'
            /\ currentPage' = 1]_vars

\* C17 witness: the first page of the current criteria settled after a
\* next page had been asked for: currentPage is 2 with the 20 books of page 1.
FirstPageSettledOnPageTwo ==
    /\ lastOp = Op("settleFirst", 0)
    /\ lastEmitted # None
    /\ books = Docs(BuildParams(lastEmitted[1].query,
                                ToSearchFilters(FormOf(lastEmitted[1])), 1))
    /\ Len(books) = Limit
    /\ ~isLoading
    /\ currentPage = 2

\* C18: a dispatch made while a first-page fetch is in flight leaves only the
\* fetch of the newly dispatched criteria in flight (or none, for a blank
\* query), and every first-page fetch that settles is the one of the last
\* dispatched criteria: the result of the earlier fetch never reaches books
\* or totalResults.
EarlierFirstPageCancelled ==
    [][/\ Dispatches =>
            /\ lastOp'.cancelled = (firstFetch # None)
            /\ firstFetch' \in {None, Some(Call(searchQuery, ToSearchFilters(filterForm), 1))}
            /\ firstFetch' = None =>
                 (IsBlankQuery(searchQuery) /\ books' = <<>> /\ totalResults' = 0)
       /\ FirstPageSettles =>
            /\ lastEmitted # None
            /\ firstFetch[1] = Call(lastEmitted[1].query,
                                    ToSearchFilters(FormOf(lastEmitted[1])), 1)
            /\ \E outcome \in Outcomes :
                 LET result == Respond(ParamsOf(firstFetch[1]), outcome).value
                 IN  books' = result.books /\ totalResults' = result.totalResults]_vars

\* C18 witness: criteria with an author were dispatched while the first-page
\* fetch of the criteria without it was in flight; one fetch is in flight,
\* the one with the author.
LaterDispatchReplacedFetch ==
    /\ lastOp.op = "dispatch"
    /\ lastOp.cancelled
    /\ lastOp.calls = 1
    /\ firstFetch # None
    /\ firstFetch[1].filters.author # None
    /\ isLoading
    /\ books = <<>>

\* C19: loadMore called while a first-page fetch is in flight (isLoading is
\* true) calls searchBooks not at all and leaves the session as it is.
LoadMoreNoOpWhileFirstPageLoading ==
    [][(lastOp'.op = "loadMore" /\ isLoading)
       => (/\ lastOp'.calls = 0
           /\ UNCHANGED <<books, totalResults, currentPage, hasMoreResults,
                          isLoading, isLoadingMore, firstFetch, moreFetches>>)]_vars

\* C19 witness: loadMore issued the fetch of page 2 while the first page was
\* still in flight.
NextPageAskedBeforeFirstPage ==
    /\ lastOp = Op("loadMore", 1)
    /\ isLoading
    /\ isLoadingMore
    /\ firstFetch # None
    /\ Len(moreFetches) = 1
    /\ moreFetches[1].page = 2
    /\ moreFetches[1].inSession
    /\ currentPage = 2
    /\ books = <<>>

\* C20: after any sequence of saveState and clearState calls getState
\* returns the argument of the most recent saveState if no clearState
\* followed it and null otherwise; hasState returns true exactly when that
\* value is not null; getState and hasState leave the slot as it is.
RECURSIVE LastWrite(_)
LastWrite(calls) ==
    IF calls = <<>> THEN None
    ELSE LET last == calls[Len(calls)]
         IN  IF last.op = "saveState" THEN last.arg
             ELSE IF last.op = "clearState" THEN None
             ELSE LastWrite(SubSeq(calls, 1, Len(calls) - 1))

SlotIsLastWrite ==
    [][/\ lastOp'.op = "getState" =>
            /\ response'[1].value = LastWrite(request)
            /\ searchState' = searchState
       /\ lastOp'.op = "hasState" =>
            /\ response'[1].value = <<LastWrite(request) # None>>
            /\ searchState' = searchState]_vars

\* C20 witness: two different states were saved one after the other and
\* getState returned the second.
GetStateReturnedSecondSave ==
    /\ Len(request) = 3
    /\ request[1].op = "saveState"
    /\ request[2].op = "saveState"
    /\ request[1].arg # request[2].arg
    /\ lastOp = Op("getState", 0)
    /\ response # None
    /\ response[1].op = "getState"
    /\ response[1].value = request[2].arg
    /\ searchState = request[2].arg

\* C21 (as claimed): when a snapshot is present at ngOnInit, the first
\* dispatch of the component fetches page 1 for the snapshot's query and
\* filters, and a snapshot in the bridge changes at clearFilters only.
FirstDispatch == Dispatches /\ lastEmitted = None

SnapshotCall == Call(searchState[1].query, ToSearchFilters(searchState[1].filters), 1)

RestoredSnapshotFetchedFirst ==
    [][/\ (FirstDispatch /\ searchState # None) => firstFetch' = Some(SnapshotCall)
       /\ (searchState # None /\ searchState' # searchState) =>
            lastOp'.op = "clearFilters"]_vars

\* C21 (amended): ngOnInit sets the query and the filter form to the
\* snapshot's, leaves the snapshot where it is and starts the quiet period;
\* the first dispatch fetches page 1 for the query and filters of that
\* moment, which are the snapshot's unless they were changed in between, and
\* fetches nothing when the query is blank; the snapshot changes only when
\* clearFilters removes it or onBookClick replaces it.
RestoreRoundTrip ==
    [][/\ (lastOp'.op = "ngOnInit" /\ searchState # None) =>
            /\ searchQuery' = searchState[1].query
            /\ filterForm' = searchState[1].filters
            /\ timer' = DebounceMs
            /\ firstFetch' = None
            /\ searchState' = searchState
       /\ FirstDispatch =>
            firstFetch' = IF IsBlankQuery(searchQuery) THEN None
                          ELSE Some(Call(searchQuery, ToSearchFilters(filterForm), 1))
       /\ (/\ FirstDispatch
           /\ searchState # None
           /\ searchQuery = searchState[1].query
           /\ filterForm = searchState[1].filters
           /\ ~IsBlankQuery(searchQuery)) => firstFetch' = Some(SnapshotCall)
       /\ searchState' # searchState =>
            \/ lastOp'.op = "clearFilters" /\ searchState' = None
            \/ lastOp'.op = "onBookClick" /\ searchState' # None]_vars

\* C21 witness: the snapshot of query "a" with author "x" is in the bridge
\* and the dispatch has just issued the fetch of page 1 for them, before any
\* result of this component.
SnapshotFetchDispatched ==
    /\ lastOp = Op("dispatch", 1)
    /\ searchState # None
    /\ searchState[1].query = <<"a">>
    /\ searchState[1].filters.author = <<"x">>
    /\ firstFetch = Some(SnapshotCall)
    /\ books = <<>>
    /\ totalResults = 0
    /\ resetupTimers = 0
    /\ isLoading
    /\ currentPage = 1

\* C22: a failing read of localStorage when FavoritesService is constructed
\* and a failing write after a change of the favorites throw nothing to the
\* caller; after a failed read the favorites are the empty list, after a
\* failed write the favorites are what they were.
FavoritesStorageFailuresCaught ==
    [][/\ lastOp'.op \in {"favoritesConstruct", "favoritesEffect", "addFavorite",
                          "removeFavorite", "toggleFavorite"} => thrown' = None
       /\ (lastOp'.op = "favoritesConstruct" /\ lastOp'.error) =>
            /\ favorites'.constructed
            /\ favorites'.list = <<>>
       /\ (lastOp'.op = "favoritesEffect" /\ lastOp'.error) =>
            /\ favorites'.list = favorites.list
            /\ storage' = storage]_vars

\* C22 witness: the stored text could not be parsed; the service is there
\* with no favorites and nothing was thrown.
FavoritesFellBackToEmpty ==
    /\ lastOp.op = "favoritesConstruct"
    /\ lastOp.error
    /\ storage.favorites = Some(Truncated)
    /\ favorites.constructed
    /\ favorites.list = <<>>
    /\ thrown = None

\* C23: a failing read of localStorage when the theme is loaded and a
\* failing write when the theme is applied throw nothing to the caller; after
\* a failed read ThemeService is there, with a theme.
ThemeStorageFailuresCaught ==
    [][/\ lastOp'.op \in {"themeConstruct", "themeEffect", "toggleTheme"} =>
            thrown' = None
       /\ (lastOp'.op = "themeConstruct" /\ lastOp'.error) => theme'.constructed]_vars

\* C23 witness: localStorage.getItem threw and the exception left the
\* construction of ThemeService; there is no service and no theme.
LoadThemeThrew ==
    /\ lastOp.op = "themeConstruct"
    /\ lastOp.error
    /\ thrown = Some("loadTheme")
    /\ ~theme.constructed

\* C24: in the parameters of every http call of searchBooks the year is
\* left out when the year filter is absent or zero and is its decimal text
\* otherwise; author and subject are left out when the filter is absent,
\* empty or whitespace only, and are the filter text without its leading and
\* trailing whitespace otherwise.
Blank(text) == \A i \in 1..Len(text) : text[i] \in {" ", "\t"}

Stripped(text, sent) ==
    /\ sent # <<>>
    /\ ~Blank(<<sent[1]>>) /\ ~Blank(<<sent[Len(sent)]>>)
    /\ \E i \in 0..Len(text) :
          /\ i + Len(sent) <= Len(text)
          /\ Blank(SubSeq(text, 1, i))
          /\ SubSeq(text, i + 1, i + Len(sent)) = sent
          /\ Blank(SubSeq(text, i + Len(sent) + 1, Len(text)))

TextParamSent(filter, param) ==
    IF filter = None \/ Blank(filter[1]) THEN param = None
    ELSE param # None /\ Stripped(filter[1], param[1])

FiltersOmittedOrTrimmed ==
    (request # None /\ response # None /\ response[1].http # None) =>
       LET filters == request[1].filters
           params == response[1].http[1]
       IN  /\ (filters.year = None \/ filters.year = Some(0)) => params.year = None
           /\ (filters.year # None /\ filters.year # Some(0)) =>
                 params.year = Some(NumToString(filters.year[1]))
           /\ TextParamSent(filters.author, params.author)
           /\ TextParamSent(filters.subject, params.subject)

\* C24 witness: an http call was made for a request with year 0, an author
\* with a leading space and a whitespace-only subject: the author is sent
\* trimmed, year and subject are not sent.
FiltersNormalised ==
    /\ request # None /\ response # None
    /\ request[1].filters.year = Some(0)
    /\ request[1].filters.author = Some(<<" ", "x">>)
    /\ request[1].filters.subject = Some(<<"\t">>)
    /\ response[1].http # None
    /\ response[1].http[1].author = Some(<<"x">>)
    /\ response[1].http[1].year = None
    /\ response[1].http[1].subject = None

\* C25: every next-page fetch loadMore issues is one for the last dispatched
\* criteria: a loadMore call that calls searchBooks does so after a dispatch
\* and with the query and filters of that dispatch.
NextPageForDispatchedCriteria ==
    [][(lastOp'.op = "loadMore" /\ lastOp'.calls = 1) =>
          /\ lastEmitted # None
          /\ searchQuery = lastEmitted[1].query
          /\ ToSearchFilters(filterForm) = ToSearchFilters(FormOf(lastEmitted[1]))
          /\ \A i \in 1..Len(moreFetches') : ~Stale(moreFetches'[i])]_vars

\* C25 witness: with the 20 books of query "a" on display the author filter
\* was set, and within the quiet period loadMore issued the fetch of page 2
\* for query "a" with the author, criteria that were never dispatched.
NextPageForUndispatchedCriteria ==
    /\ lastOp = Op("loadMore", 1)
    /\ timer > 0
    /\ lastEmitted # None
    /\ lastEmitted[1].query = <<"a">>
    /\ lastEmitted[1].author = <<>>
    /\ Len(books) = Limit
    /\ ~isLoading
    /\ Len(moreFetches) = 1
    /\ moreFetches[1].inSession
    /\ moreFetches[1].page = 2
    /\ moreFetches[1].query = <<"a">>
    /\ moreFetches[1].filters.author = Some(<<"x">>)

\* C26: every request is sent with limit 20 and offset (page - 1) * 20; the
\* first-page fetch of a dispatch is page 1, and a loadMore call that issues
\* a fetch issues it for the page after currentPage and makes that page the
\* current one, so that the loadMore calls of a session ask for pages 2, 3,
\* ... at offsets 20, 40, ...
SentForPage(call) ==
    /\ ParseNat(ParamsOf(call).limit) = 20
    /\ ParseNat(ParamsOf(call).offset) = (call.page - 1) * 20

PagesAskedInSequence ==
    [][/\ (Dispatches /\ firstFetch' # None) =>
            /\ firstFetch'[1].page = 1
            /\ currentPage' = 1
            /\ SentForPage(firstFetch'[1])
       /\ (lastOp'.op = "loadMore" /\ lastOp'.calls = 1) =>
            currentPage' = currentPage + 1
       /\ (lastOp'.op = "loadMore" /\ Len(moreFetches') = Len(moreFetches) + 1) =>
            /\ lastOp'.calls = 1
            /\ moreFetches'[Len(moreFetches')].page = currentPage + 1
            /\ SentForPage(moreFetches'[Len(moreFetches')])
       /\ \A i \in 1..Len(moreFetches) : NextPageSettles(i) => currentPage' = currentPage]_vars

\* C26 witness: with pages 1 and 2 of query "a" on display the second
\* loadMore of the session has asked for page 3 at offset 40.
ThirdPageAsked ==
    /\ lastOp = Op("loadMore", 1)
    /\ Len(books) = 2 * Limit
    /\ currentPage = 3
    /\ Len(moreFetches) = 1
    /\ moreFetches[1].page = 3
    /\ moreFetches[1].inSession
    /\ ParamsOf(moreFetches[1]).offset = <<"4", "0">>
    /\ ParamsOf(moreFetches[1]).limit = <<"2", "0">>

\* C27: when every timer fires and every fetch settles, a behaviour in
\* which from some point on the input is not changed and loadMore is not
\* called ends with isLoading and isLoadingMore false for good; and at any
\* time isLoading is true only while a first-page fetch is in flight and
\* isLoadingMore only while a next-page fetch is in flight.
UserActs == lastOp'.op \in {"change", "clearFilters", "loadMore"}

EventuallyIdle ==
    /\ <>[][~UserActs]_vars => <>[](~isLoading /\ ~isLoadingMore)
    /\ [](isLoading => firstFetch # None)
    /\ [](isLoadingMore => moreFetches # <<>>)

\* C27 witness: the first page and a next page have settled, no timer is
\* pending and nothing is in flight: the session is idle.
IdleAfterTwoPages ==
    /\ lastOp.op = "settleMore"
    /\ Len(books) = 2 * Limit
    /\ ~isLoading /\ ~isLoadingMore
    /\ firstFetch = None /\ moreFetches = <<>>
    /\ timer = NoTimer

\* C28: currentPage changes only when an accepted loadMore adds one to it
\* or when a dispatch or clearFilters sets it to 1; the settlement of a
\* fetch, whatever the response, leaves currentPage alone, calls searchBooks
\* zero times and puts no fetch in flight.
PageTurnsOnlyOnLoadMoreOrReset ==
    [][/\ currentPage' # currentPage
          => \/ /\ lastOp'.op = "loadMore" /\ lastOp'.calls = 1
                /\ currentPage' = currentPage + 1
             \/ /\ lastOp'.op \in {"dispatch", "clearFilters"}
                /\ currentPage' = 1
       /\ Settles
          => /\ currentPage' = currentPage
             /\ lastOp'.calls = 0
             /\ firstFetch' \in {firstFetch, None}
             /\ Len(moreFetches') <= Len(moreFetches)]_vars

\* C28 witness: the fetch of page 2 settled with an empty page while the
\* total still exceeds the books held; the session stays on page 2 with
\* nothing in flight.
EmptyPageLeftPageAlone ==
    /\ lastOp.op = "settleMore" /\ ~lastOp.error
    /\ currentPage = 2
    /\ Len(books) = Limit /\ totalResults > Limit
    /\ hasMoreResults
    /\ firstFetch = None /\ moreFetches = <<>>

\* C29: when clearFilters ran, no handler of the user ran after it, the
\* debounce timer is not pending and no fetch is in flight, books is empty,
\* totalResults is 0 and no snapshot is saved.
Quiescent == timer = NoTimer /\ firstFetch = None /\ moreFetches = <<>>

ClearedSessionDiscarded ==
    (lastOp.sinceClear /\ Quiescent)
        => (books = <<>> /\ totalResults = 0 /\ searchState = None)

\* C29 witness: quiescent after clearFilters, and books holds the page of a
\* fetch that was in flight when clearFilters ran.
LatePageShownAfterClear ==
    /\ lastOp.sinceClear /\ Quiescent
    /\ lastOp.op = "settleMore"
    /\ books # <<>> /\ totalResults = 0

\* C30: after every step of the favorites service no two entries of the
\* collection have the same key and isFavoriteSync(k) is true exactly for the
\* keys that occur in it; an addFavorite step either leaves the collection
\* as it was or appends one book whose key was absent.
KeysOf(list) == {list[i].key : i \in 1..Len(list)}

FavoritesKeyedSet ==
    [][LET old == favorites.list
           new == favorites'.list
       IN  /\ \A i, j \in 1..Len(new) : new[i].key = new[j].key => i = j
           /\ \A k \in FavKeys : IsFavoriteSync(new, k) <=> k \in KeysOf(new)
           /\ lastOp'.op = "addFavorite"
              => \/ new = old
                 \/ /\ Len(new) = Len(old) + 1
                    /\ SubSeq(new, 1, Len(old)) = old
                    /\ new[Len(new)].key \notin KeysOf(old)]_vars

\* C30 witness: addFavorite ran for a key that was present: the collection
\* holds both keys and the call did not set the signal, so no save is
\* pending.
AddFavoriteOfPresentKey ==
    /\ lastOp.op = "addFavorite"
    /\ ~favorites.pending
    /\ KeysOf(favorites.list) = FavKeys
    /\ Len(favorites.list) = Cardinality(FavKeys)

\* C31: at any time at most one IntersectionObserver is observing the
\* sentinel: the one this.observer refers to, every earlier one having been
\* disconnected.
AtMostOneObserverObserving == Connected <= 1

\* C31 witness: a 500 ms timer created an observer while the observer of an
\* earlier timer was still connected; both observe the sentinel.
TwoObserversObserving ==
    /\ lastOp.op = "observe"
    /\ observer = "connected"
    /\ leaked >= 1
    /\ Connected = 2

\* C32: in every state of the running component with no debounce timer
\* pending and no fetch in flight, hasMoreResults is true exactly when books
\* holds fewer entries than totalResults.
HasMoreMatchesCounts ==
    (phase = "active" /\ Quiescent)
        => (hasMoreResults <=> Len(books) < totalResults)

\* C32 witness: clearFilters ran, the emission it caused was suppressed as
\* equal to the last dispatched criteria, and the session is quiescent with
\* hasMoreResults true, no books and totalResults 0.
HasMoreLeftTrueAfterClear ==
    /\ phase = "active" /\ Quiescent
    /\ lastOp.op = "suppressed" /\ lastOp.sinceClear
    /\ hasMoreResults
    /\ books = <<>> /\ totalResults = 0

\* C33: when the debounce timer fires with criteria equal to the last
\* dispatched ones, books, totalResults, currentPage, hasMoreResults,
\* isLoading and isLoadingMore keep their values, searchBooks is not called
\* and the fetches in flight stay in flight.
SuppressedEmissionKeepsSession ==
    [][(DebounceFires /\ lastEmitted # None /\ lastEmitted[1] = Combined)
       => (/\ UNCHANGED <<books, totalResults, currentPage, hasMoreResults,
                          isLoading, isLoadingMore>>
           /\ UNCHANGED <<firstFetch, moreFetches>>
           /\ lastOp'.calls = 0 /\ ~lastOp'.cancelled)]_vars

\* C33 witness: an emission was suppressed while the first-page fetch of
\* the same criteria was in flight, and the fetch is still in flight.
SuppressedWithFetchInFlight ==
    /\ lastOp.op = "suppressed"
    /\ lastEmitted = Some(Combined)
    /\ isLoading
    /\ firstFetch # None
    /\ firstFetch[1].query = searchQuery /\ firstFetch[1].query # <<>>

====
